---- MODULE Spec2Model ----
(***************************************************************************)
(* A model of scripts/refactor.py, the alias refactoring tool.             *)
(*                                                                         *)
(* Text is modelled character by character: a Python str is a sequence of  *)
(* one-character strings, so that parsing, quoting, whitespace handling,   *)
(* prefix matching and name sanitizing are computed as the code computes   *)
(* them.  A Python dict is a record [keys, val]: the keys in insertion     *)
(* order and the mapping, because the code iterates dicts and sorts their  *)
(* keys with a stable sort.                                                *)
(***************************************************************************)
EXTENDS Integers, Sequences, FiniteSets, TLC

\* ------------------------------------------------------------- characters

\* A string literal as a sequence of one-character strings.
Chars(str) == [i \in 1..Len(str) |-> SubSeq(str, i, i)]

\* The printable ASCII characters in code-point order: code points 32..95 and
\* 97..126 (a grave accent, code point 96, cannot be written in a TLA+ string
\* and is not part of the modelled alphabet).
PrintableLow ==
    Chars(" !\"#$%&'()*+,-./0123456789:;<=>?@ABCDEFGHIJKLMNOPQRSTUVWXYZ[\\]^_")
PrintableHigh == Chars("abcdefghijklmnopqrstuvwxyz{|}~")

\* ord(c): Python compares strings by code point.
OrdTable ==
    [c \in {"\t", "\n"} \cup {PrintableLow[i] : i \in 1..Len(PrintableLow)}
             \cup {PrintableHigh[i] : i \in 1..Len(PrintableHigh)} |->
        IF c = "\t" THEN 9
        ELSE IF c = "\n" THEN 10
        ELSE IF \E i \in 1..Len(PrintableLow) : PrintableLow[i] = c
        THEN 31 + (CHOOSE i \in 1..Len(PrintableLow) : PrintableLow[i] = c)
        ELSE 96 + (CHOOSE i \in 1..Len(PrintableHigh) : PrintableHigh[i] = c)]
Ord(c) == OrdTable[c]

IsSpace(c) == c \in {" ", "\t"}
IsLower(c) == Ord(c) >= 97 /\ Ord(c) <= 122
IsUpper(c) == Ord(c) >= 65 /\ Ord(c) <= 90
IsDigit(c) == Ord(c) >= 48 /\ Ord(c) <= 57
\* str.lower() of one character
Lower(c) == IF IsUpper(c) THEN PrintableHigh[Ord(c) - 64] ELSE c

\* NAME_CHARS = A-Za-z0-9._-
IsNameChar(c) == IsLower(c) \/ IsUpper(c) \/ IsDigit(c) \/ c \in {".", "_", "-"}
\* the class of CMDISH_FIRST_TOKEN_RE: A-Za-z0-9._/-
IsCmdishChar(c) == IsNameChar(c) \/ c = "/"
\* the class kept by AUTO_SAFE_RE: a-z0-9_-
IsAutoSafeChar(c) == IsLower(c) \/ IsDigit(c) \/ c \in {"_", "-"}

\* ---------------------------------------------------------------- strings

\* s[a:b] with 0-based a inclusive and b exclusive, as a Python slice.
Slice(s, a, b) == SubSeq(s, a + 1, b)
From(s, a) == SubSeq(s, a + 1, Len(s))

\* The number of leading / trailing characters of s that satisfy \s.
RECURSIVE WsFrom(_, _)
WsFrom(s, i) == IF i <= Len(s) /\ IsSpace(s[i]) THEN 1 + WsFrom(s, i + 1) ELSE 0
RECURSIVE WsBefore(_, _)
WsBefore(s, i) == IF i >= 1 /\ IsSpace(s[i]) THEN 1 + WsBefore(s, i - 1) ELSE 0
LeadWs(s) == WsFrom(s, 1)
TrailWs(s) == WsBefore(s, Len(s))

lstrip(s) == From(s, LeadWs(s))
rstrip(s) == Slice(s, 0, Len(s) - TrailWs(s))
strip(s) == rstrip(lstrip(s))

StartsWith(s, p) == Len(p) <= Len(s) /\ SubSeq(s, 1, Len(p)) = p

\* str.rstrip("_") and str.strip("_")
RECURSIVE UndersFrom(_, _)
UndersFrom(s, i) == IF i <= Len(s) /\ s[i] = "_" THEN 1 + UndersFrom(s, i + 1) ELSE 0
RECURSIVE UndersBefore(_, _)
UndersBefore(s, i) == IF i >= 1 /\ s[i] = "_" THEN 1 + UndersBefore(s, i - 1) ELSE 0
LeadUnders(s) == UndersFrom(s, 1)
TrailUnders(s) == UndersBefore(s, Len(s))
rstripUnder(s) == Slice(s, 0, Len(s) - TrailUnders(s))
stripUnder(s) == rstripUnder(From(s, LeadUnders(s)))

\* "".join(parts) and sep.join(parts)
RECURSIVE Concat(_)
Concat(parts) ==
    IF parts = <<>> THEN <<>> ELSE Head(parts) \o Concat(Tail(parts))

RECURSIVE Join(_, _)
Join(sep, parts) ==
    IF parts = <<>> THEN <<>>
    ELSE IF Len(parts) = 1 THEN parts[1]
    ELSE parts[1] \o sep \o Join(sep, Tail(parts))

\* The length of the whitespace-free run of s that starts at index i.
RECURSIVE NonWsFrom(_, _)
NonWsFrom(s, i) == IF i <= Len(s) /\ ~IsSpace(s[i]) THEN 1 + NonWsFrom(s, i + 1) ELSE 0

\* str.split(): the whitespace-separated tokens of s.
RECURSIVE Tokens(_)
Tokens(s) ==
    LET t == lstrip(s) IN
    IF t = <<>> THEN <<>>
    ELSE LET n == NonWsFrom(t, 1) IN <<Slice(t, 0, n)>> \o Tokens(From(t, n))

\* Lexicographic order of integer sequences: Python's order of tuples, and of
\* strings once each character is replaced by its code point.
RECURSIVE SeqLess(_, _)
SeqLess(a, b) ==
    IF b = <<>> THEN FALSE
    ELSE IF a = <<>> THEN TRUE
    ELSE IF Head(a) # Head(b) THEN Head(a) < Head(b)
    ELSE SeqLess(Tail(a), Tail(b))

Codes(s) == [i \in 1..Len(s) |-> Ord(s[i])]

\* sorted(items, key=...): items are records [k |-> key, v |-> value]; the
\* sort is stable, as Python's is.
RECURSIVE InsertSorted(_, _)
InsertSorted(sorted, item) ==
    IF sorted = <<>> THEN <<item>>
    ELSE IF SeqLess(item.k, Head(sorted).k) THEN <<item>> \o sorted
    ELSE <<Head(sorted)>> \o InsertSorted(Tail(sorted), item)

RECURSIVE SortByKey(_)
SortByKey(items) ==
    IF items = <<>> THEN <<>>
    ELSE InsertSorted(SortByKey(SubSeq(items, 1, Len(items) - 1)), items[Len(items)])

Values(items) == [i \in 1..Len(items) |-> items[i].v]

\* ------------------------------------------------------------------ dicts

EmptyDict == [keys |-> <<>>, val |-> <<>>]
Has(d, k) == \E i \in 1..Len(d.keys) : d.keys[i] = k
Get(d, k) == d.val[CHOOSE i \in 1..Len(d.keys) : d.keys[i] = k]
\* d[k] = v: a new key goes last, an old key keeps its place.
Put(d, k, v) ==
    IF Has(d, k)
    THEN [d EXCEPT !.val[CHOOSE i \in 1..Len(d.keys) : d.keys[i] = k] = v]
    ELSE [keys |-> Append(d.keys, k), val |-> Append(d.val, v)]

\* ---------------------------------------------------------- line parser

\* for i, ch in enumerate(line): the 0-based index of the first '#' outside
\* single and double quotes, or -1.
RECURSIVE CommentAt(_, _, _, _)
CommentAt(line, i, in_s, in_d) ==
    IF i >= Len(line) THEN -1
    ELSE LET ch == line[i + 1] IN
         IF ch = "'" /\ ~in_d THEN CommentAt(line, i + 1, ~in_s, in_d)
         ELSE IF ch = "\"" /\ ~in_s THEN CommentAt(line, i + 1, in_s, ~in_d)
         ELSE IF ch = "#" /\ ~in_s /\ ~in_d THEN i
         ELSE CommentAt(line, i + 1, in_s, in_d)

split_comment_unquoted(line) ==
    LET i == CommentAt(line, 0, FALSE, FALSE) IN
    IF i < 0 THEN [code |-> line, ws |-> <<>>, comment |-> <<>>]
    ELSE LET code == Slice(line, 0, i)
             ws == From(code, Len(code) - TrailWs(code))
         IN [code |-> Slice(code, 0, Len(code) - Len(ws)),
             ws |-> ws,
             comment |-> From(line, i)]

\* NAME_RE.match(name)
NameOk(name) == name # <<>> /\ \A i \in 1..Len(name) : IsNameChar(name[i])

\* parse_alias_line returning None
NoAlias == [ok |-> FALSE]

\* The length of the run of characters other than '=' that starts at index i.
RECURSIVE NotEqFrom(_, _)
NotEqFrom(s, i) == IF i <= Len(s) /\ s[i] # "=" THEN 1 + NotEqFrom(s, i + 1) ELSE 0

\* re.match(r"^(\s*alias\s+)([^=]+)=(.*)$", code): the prefix takes the leading
\* whitespace, "alias" and the whole whitespace run after it; the name group
\* runs to the first '='.  When nothing stands between that run and the '=',
\* the regex either fails or backtracks to a name of one whitespace character,
\* which strips to the empty name: None both ways.
parse_alias_line(line) ==
    IF ~StartsWith(lstrip(line), Chars("alias ")) THEN NoAlias
    ELSE LET sc == split_comment_unquoted(line)
             code == sc.code
             lead == LeadWs(code)
             afterKw == From(code, lead + 5)
             gap == LeadWs(afterKw)
             rest == From(afterKw, gap)
             hasEq == \E i \in 1..Len(rest) : rest[i] = "="
             eq == 1 + NotEqFrom(rest, 1)
         IN IF ~StartsWith(From(code, lead), Chars("alias")) \/ gap = 0 \/ ~hasEq
            THEN NoAlias
            ELSE IF ~NameOk(strip(SubSeq(rest, 1, eq - 1))) THEN NoAlias
            ELSE [ok |-> TRUE,
                  original |-> line,
                  prefix |-> Slice(code, 0, lead + 5 + gap),
                  name |-> strip(SubSeq(rest, 1, eq - 1)),
                  cmd_raw |-> From(rest, eq),
                  ws_before_hash |-> sc.ws,
                  comment |-> sc.comment]

\* ---------------------------------------------------- unwrapper / rewrapper

\* re.match(r"^(\s*)(.*?)(\s*)$", cmd_raw): greedy leading whitespace, then the
\* shortest body that leaves only whitespace behind it.
unwrap_cmd(cmd_raw) ==
    LET lead == LeadWs(cmd_raw)
        rem == From(cmd_raw, lead)
        trail == TrailWs(rem)
        body == Slice(rem, 0, Len(rem) - trail)
        quoted == Len(body) >= 2 /\ body[1] = body[Len(body)] /\ body[1] \in {"'", "\""}
    IN [leading_ws |-> Slice(cmd_raw, 0, lead),
        quote |-> IF quoted THEN <<body[1]>> ELSE <<>>,
        inner |-> IF quoted THEN Slice(body, 1, Len(body) - 1) ELSE body,
        trailing_ws |-> From(rem, Len(rem) - trail)]

rewrap_cmd(leading_ws, quote, inner, trailing_ws) ==
    IF quote # <<>> THEN leading_ws \o quote \o inner \o quote \o trailing_ws
    ELSE leading_ws \o inner \o trailing_ws

\* prefix + name + "=" + new_cmd_raw, then ws_before_hash + comment if there is
\* a comment: the line rebuilt in phase 1 and in phase 2.
Rebuild(al, new_inner) ==
    LET u == unwrap_cmd(al.cmd_raw)
        rebuilt == al.prefix \o al.name \o <<"=">>
                     \o rewrap_cmd(u.leading_ws, u.quote, new_inner, u.trailing_ws)
    IN IF al.comment # <<>> THEN rebuilt \o al.ws_before_hash \o al.comment
       ELSE rebuilt

\* -------------------------------------------------------- expansion engine

\* The length of the first whitespace-free run of s (s has no leading
\* whitespace).
TokenLen(s) == NonWsFrom(s, 1)

first_token(s) ==
    LET s2 == lstrip(s) IN
    IF s2 = <<>> THEN <<>> ELSE Slice(s2, 0, TokenLen(s2))

\* re.split(r"\s+", s2, maxsplit=1)[1], or "" when s2 is a single token
strip_first_token(s) ==
    LET s2 == lstrip(s) IN
    IF s2 = <<>> THEN <<>>
    ELSE IF TokenLen(s2) = Len(s2) THEN <<>>
    ELSE lstrip(From(s2, TokenLen(s2)))

\* One iteration of the loop of expand_prefix_aliases: whether it substitutes,
\* and the command after the substitution.
CanHop(cur, alias_to_cmd) ==
    first_token(cur) # <<>> /\ Has(alias_to_cmd, first_token(cur))

Hop(cur, alias_to_cmd) ==
    LET rest == strip_first_token(cur)
        repl == Get(alias_to_cmd, first_token(cur))
    IN IF rest # <<>> THEN rstrip(repl \o <<" ">> \o rest) ELSE repl

\* The loop run for at most `depth` iterations: the final command and the
\* number of substitutions made.
RECURSIVE ExpandRun(_, _, _)
ExpandRun(cur, alias_to_cmd, depth) ==
    IF depth = 0 \/ ~CanHop(cur, alias_to_cmd) THEN [cur |-> cur, hops |-> 0]
    ELSE LET r == ExpandRun(Hop(cur, alias_to_cmd), alias_to_cmd, depth - 1)
         IN [cur |-> r.cur, hops |-> r.hops + 1]

\* A depth bound off by one.
DepthPlusOne == 10 + 1

\* depth: int = 10
Depth == 10

expand_prefix_aliases(cmd, alias_to_cmd) == ExpandRun(cmd, alias_to_cmd, Depth).cur

\* ----------------------------------------------------- equivalence resolver

\* A canonical choice that orders by name alone.
choose_canonical_by_name(aliases) ==
    Values(SortByKey([i \in 1..Len(aliases) |->
        [k |-> Codes(aliases[i]), v |-> aliases[i]]]))[1]

\* sorted(aliases, key=lambda a: (len(a), a))[0]
choose_canonical(aliases) ==
    Values(SortByKey([i \in 1..Len(aliases) |->
        [k |-> <<Len(aliases[i])>> \o Codes(aliases[i]), v |-> aliases[i]]]))[1]

\* -------------------------------------------------------------- auto-namer

\* AUTO_SAFE_RE.sub("_", s): every maximal run of characters outside a-z0-9_-
\* becomes one underscore.
RECURSIVE SubUnsafe(_, _)
SubUnsafe(s, inRun) ==
    IF s = <<>> THEN <<>>
    ELSE IF IsAutoSafeChar(Head(s)) THEN <<Head(s)>> \o SubUnsafe(Tail(s), FALSE)
    ELSE IF inRun THEN SubUnsafe(Tail(s), TRUE)
    ELSE <<"_">> \o SubUnsafe(Tail(s), TRUE)

\* MULTI_UNDERSCORE_RE.sub("_", s)
RECURSIVE CollapseUnders(_, _)
CollapseUnders(s, inRun) ==
    IF s = <<>> THEN <<>>
    ELSE IF Head(s) # "_" THEN <<Head(s)>> \o CollapseUnders(Tail(s), FALSE)
    ELSE IF inRun THEN CollapseUnders(Tail(s), TRUE)
    ELSE <<"_">> \o CollapseUnders(Tail(s), TRUE)

\* max_len: int = 48
MaxNameLen == 48

sanitize_auto_name(command_segment) ==
    LET st == strip(command_segment)
        low == [i \in 1..Len(st) |-> Lower(st[i])]
        s2 == stripUnder(CollapseUnders(SubUnsafe(low, FALSE), FALSE))
        s3 == IF s2 = <<>> THEN Chars("cmd") ELSE s2
        s4 == IF Len(s3) > MaxNameLen THEN rstripUnder(Slice(s3, 0, MaxNameLen)) ELSE s3
    IN Chars("auto_") \o s4

\* str(i) for i >= 0
RECURSIVE Str(_)
Str(i) ==
    IF i < 10 THEN <<Chars("0123456789")[i + 1]>>
    ELSE Str(i \div 10) \o <<Chars("0123456789")[(i % 10) + 1]>>

\* ---------------------------------------------------------------- segments

\* OP_SPLIT_RE matched at 0-based position i of s: the length of the match
\* (whitespace, one of && || | ;, whitespace), or 0 when there is none.
MatchOpAt(s, i) ==
    LET w == WsFrom(s, i + 1)
        a == i + w + 1
        At(k, c) == k <= Len(s) /\ s[k] = c
        oplen == IF At(a, "&") /\ At(a + 1, "&") THEN 2
                 ELSE IF At(a, "|") /\ At(a + 1, "|") THEN 2
                 ELSE IF At(a, "|") THEN 1
                 ELSE IF At(a, ";") THEN 1
                 ELSE 0
    IN IF oplen = 0 THEN 0 ELSE w + oplen + WsFrom(s, a + oplen)

\* OP_SPLIT_RE.fullmatch(p)
IsOpPart(p) == p # <<>> /\ MatchOpAt(p, 0) = Len(p)

\* OP_SPLIT_RE.split(inner) without its empty parts: the text before the
\* leftmost match, the match, and the split of what follows.
\* The 0-based position of the leftmost match at or after i, or Len(s).
RECURSIVE NextOp(_, _)
NextOp(s, i) ==
    IF i >= Len(s) THEN Len(s)
    ELSE IF MatchOpAt(s, i) > 0 THEN i
    ELSE NextOp(s, i + 1)

RECURSIVE split_by_ops(_)
split_by_ops(inner) ==
    IF inner = <<>> THEN <<>>
    ELSE LET i == NextOp(inner, 0) IN
         IF i = Len(inner) THEN <<inner>>
         ELSE LET n == MatchOpAt(inner, i) IN
              (IF i > 0 THEN <<Slice(inner, 0, i)>> ELSE <<>>)
                \o <<Slice(inner, i, i + n)>>
                \o split_by_ops(From(inner, i + n))

ShellKeywords ==
    {Chars("if"), Chars("then"), Chars("fi"), Chars("for"), Chars("do"),
     Chars("done"), Chars("while"), Chars("case"), Chars("esac"), Chars("function")}

is_plain_segment(seg_strip) ==
    LET tok == first_token(seg_strip) IN
    /\ seg_strip # <<>>
    /\ Len(seg_strip) >= 2
    /\ \A i \in 1..Len(seg_strip) : seg_strip[i] \notin {"{", "}", "(", ")"}
    /\ tok # <<>>
    /\ tok \notin ShellKeywords
    /\ \A i \in 1..Len(tok) : IsCmdishChar(tok[i])

\* ------------------------------------------------------- segment rewriter

\* sorted(canonical_for_full.keys(), key=len, reverse=True): longest first,
\* keys of one length in dict order.
KeysLongestFirst(d) ==
    Values(SortByKey([i \in 1..Len(d.keys) |->
        [k |-> <<0 - Len(d.keys[i])>>, v |-> d.keys[i]]]))

\* The loop without the guard that keeps a definition from naming itself.
RECURSIVE RefactorLoopUnguarded(_, _, _, _, _, _)
RefactorLoopUnguarded(keys, seg, full, canonical_for_full, current_alias_name, full_for_alias) ==
    IF keys = <<>> THEN seg
    ELSE LET full_prefix == Head(keys) IN
         IF full = full_prefix \/ StartsWith(full, full_prefix \o <<" ">>)
         THEN LET alias == Get(canonical_for_full, full_prefix)
                  rest == lstrip(From(full, Len(full_prefix)))
                  new_seg == IF rest # <<>> THEN rstrip(alias \o <<" ">> \o rest)
                             ELSE alias
              IN Slice(seg, 0, Len(seg) - Len(lstrip(seg))) \o new_seg
         ELSE RefactorLoopUnguarded(Tail(keys), seg, full, canonical_for_full,
                                    current_alias_name, full_for_alias)

\* The loop with the words behind the matched prefix dropped.
RECURSIVE RefactorLoopNoRest(_, _, _, _, _, _)
RefactorLoopNoRest(keys, seg, full, canonical_for_full, current_alias_name, full_for_alias) ==
    IF keys = <<>> THEN seg
    ELSE LET full_prefix == Head(keys) IN
         IF full = full_prefix \/ StartsWith(full, full_prefix \o <<" ">>)
         THEN LET alias == Get(canonical_for_full, full_prefix) IN
              IF /\ alias = current_alias_name
                 /\ Has(full_for_alias, current_alias_name)
                 /\ full_prefix = Get(full_for_alias, current_alias_name)
              THEN seg
              ELSE Slice(seg, 0, Len(seg) - Len(lstrip(seg))) \o alias
         ELSE RefactorLoopNoRest(Tail(keys), seg, full, canonical_for_full,
                                 current_alias_name, full_for_alias)

\* The for loop of refactor_segment over the sorted keys.
RECURSIVE RefactorLoop(_, _, _, _, _, _)
RefactorLoop(keys, seg, full, canonical_for_full, current_alias_name, full_for_alias) ==
    IF keys = <<>> THEN seg
    ELSE LET full_prefix == Head(keys) IN
         IF full = full_prefix \/ StartsWith(full, full_prefix \o <<" ">>)
         THEN LET alias == Get(canonical_for_full, full_prefix) IN
              IF /\ alias = current_alias_name
                 /\ Has(full_for_alias, current_alias_name)
                 /\ full_prefix = Get(full_for_alias, current_alias_name)
              THEN seg
              ELSE LET rest == lstrip(From(full, Len(full_prefix)))
                       new_seg == IF rest # <<>> THEN rstrip(alias \o <<" ">> \o rest)
                                  ELSE alias
                   IN Slice(seg, 0, Len(seg) - Len(lstrip(seg))) \o new_seg
         ELSE RefactorLoop(Tail(keys), seg, full, canonical_for_full,
                           current_alias_name, full_for_alias)

refactor_segment(seg, alias_to_cmd, canonical_for_full, current_alias_name, full_for_alias) ==
    IF lstrip(seg) = <<>> THEN seg
    ELSE RefactorLoop(KeysLongestFirst(canonical_for_full), seg,
                      expand_prefix_aliases(lstrip(seg), alias_to_cmd),
                      canonical_for_full, current_alias_name, full_for_alias)

\* The parts with a leading window of segment, operator, segment replaced by
\* the canonical name of the shortcut whose full form the window spells.
RefactorPartsWindowed(inner, alias_to_cmd, canonical_for_full, current_alias_name, full_for_alias) ==
    LET parts == split_by_ops(inner)
        Seg(p) == IF IsOpPart(p) THEN p
                  ELSE refactor_segment(p, alias_to_cmd, canonical_for_full,
                                        current_alias_name, full_for_alias)
        window == IF Len(parts) >= 3 THEN strip(Concat(SubSeq(parts, 1, 3))) ELSE <<>>
    IN IF /\ Len(parts) >= 3
          /\ Has(canonical_for_full, window)
          /\ Get(canonical_for_full, window) # current_alias_name
       THEN <<Get(canonical_for_full, window)>>
              \o [i \in 1..(Len(parts) - 3) |-> Seg(parts[i + 3])]
       ELSE [i \in 1..Len(parts) |-> Seg(parts[i])]

\* out: the parts of inner, each segment refactored, each operator kept.
RefactorParts(inner, alias_to_cmd, canonical_for_full, current_alias_name, full_for_alias) ==
    LET parts == split_by_ops(inner) IN
    [i \in 1..Len(parts) |->
        IF IsOpPart(parts[i]) THEN parts[i]
        ELSE refactor_segment(parts[i], alias_to_cmd, canonical_for_full,
                              current_alias_name, full_for_alias)]

refactor_command(inner, alias_to_cmd, canonical_for_full, current_alias_name, full_for_alias) ==
    Concat(RefactorParts(inner, alias_to_cmd, canonical_for_full,
                         current_alias_name, full_for_alias))

\* ------------------------------------------------------------ file access

\* read_text().splitlines(): the text cut at each line feed, without an empty
\* last line when the text ends with a line feed.
RECURSIVE LineLen(_, _)
LineLen(text, i) == IF i <= Len(text) /\ text[i] # "\n" THEN 1 + LineLen(text, i + 1) ELSE 0

RECURSIVE splitlines(_)
splitlines(text) ==
    IF text = <<>> THEN <<>>
    ELSE LET n == LineLen(text, 1) IN
         IF n = Len(text) THEN <<text>>
         ELSE <<SubSeq(text, 1, n)>> \o splitlines(From(text, n + 1))

\* "\n".join(final_lines) + "\n"
FileText(ls) == Join(<<"\n">>, ls) \o <<"\n">>

\* ------------------------------------------------------- main: resolution

\* for al in parsed: alias_to_cmd_inner[al.name] = inner
PutAlias(d, al) ==
    IF al.ok THEN Put(d, al.name, unwrap_cmd(al.cmd_raw).inner) ELSE d

RECURSIVE AliasToInner(_, _)
AliasToInner(ls, d) ==
    IF ls = <<>> THEN d
    ELSE AliasToInner(Tail(ls), PutAlias(d, parse_alias_line(Head(ls))))

\* {name: expand_prefix_aliases(inner, alias_to_cmd) for name, inner in ...}
FullForAlias(alias_to_cmd) ==
    [keys |-> alias_to_cmd.keys,
     val |-> [i \in 1..Len(alias_to_cmd.keys) |->
                 expand_prefix_aliases(alias_to_cmd.val[i], alias_to_cmd)]]

\* for a, full in full_for_alias.items(): dupes.setdefault(full, []).append(a)
RECURSIVE Dupes(_, _, _)
Dupes(full_for_alias, i, d) ==
    IF i > Len(full_for_alias.keys) THEN d
    ELSE Dupes(full_for_alias, i + 1,
               Put(d, full_for_alias.val[i],
                   IF Has(d, full_for_alias.val[i])
                   THEN Append(Get(d, full_for_alias.val[i]), full_for_alias.keys[i])
                   ELSE <<full_for_alias.keys[i]>>))

\* {full: choose_canonical(names) for full, names in dupes.items()}
CanonicalForFull(dupes) ==
    [keys |-> dupes.keys,
     val |-> [i \in 1..Len(dupes.keys) |-> choose_canonical(dupes.val[i])]]

\* ----------------------------------------------------------- main: phase 1

\* out of refactor_command for a parsed line; nothing for a line that is no
\* alias line.
Phase1Parts(al, alias_to_cmd, canonical, fulls) ==
    IF ~al.ok THEN <<>>
    ELSE RefactorParts(unwrap_cmd(al.cmd_raw).inner, alias_to_cmd, canonical,
                       al.name, fulls)

\* new_inner of a parsed alias line.
Phase1Inner(al, alias_to_cmd, canonical, fulls) ==
    refactor_command(unwrap_cmd(al.cmd_raw).inner, alias_to_cmd, canonical,
                     al.name, fulls)

Phase1Rebuilt(line, al, alias_to_cmd, canonical, fulls) ==
    IF ~al.ok THEN line
    ELSE Rebuild(al, Phase1Inner(al, alias_to_cmd, canonical, fulls))

\* One line of phase 1: an alias line is rebuilt around its refactored body,
\* any other line is kept.
Phase1Line(line, alias_to_cmd, canonical, fulls) ==
    Phase1Rebuilt(line, parse_alias_line(line), alias_to_cmd, canonical, fulls)

Phase1LineChanged(al, alias_to_cmd, canonical, fulls) ==
    /\ al.ok
    /\ Phase1Inner(al, alias_to_cmd, canonical, fulls) # unwrap_cmd(al.cmd_raw).inner

Phase1Changed(ls, alias_to_cmd, canonical, fulls) ==
    \E i \in 1..Len(ls) :
        Phase1LineChanged(parse_alias_line(ls[i]), alias_to_cmd, canonical, fulls)

\* ----------------------------------------------------------- main: phase 2

\* Whether a part is counted, and later replaced: a plain segment that equals
\* its own expansion.
IsUnaliased(part, alias_to_inner) ==
    /\ ~IsOpPart(part)
    /\ is_plain_segment(lstrip(part))
    /\ lstrip(part) = expand_prefix_aliases(lstrip(part), alias_to_inner)

\* seg_strip of every part of a list.
StripAll(parts) == [i \in 1..Len(parts) |-> lstrip(parts[i])]

\* The segments a parsed line contributes to seg_full_counts, in order.
CountedOf(al, alias_to_inner) ==
    IF ~al.ok THEN <<>>
    ELSE StripAll(SelectSeq(split_by_ops(unwrap_cmd(al.cmd_raw).inner),
                            LAMBDA p : IsUnaliased(p, alias_to_inner)))

CountedSegs(line, alias_to_inner) == CountedOf(parse_alias_line(line), alias_to_inner)

\* seg_full_counts[seg_full] = seg_full_counts.get(seg_full, 0) + 1
RECURSIVE CountAll(_, _)
CountAll(segs, d) ==
    IF segs = <<>> THEN d
    ELSE CountAll(Tail(segs),
                  Put(d, Head(segs), IF Has(d, Head(segs)) THEN Get(d, Head(segs)) + 1 ELSE 1))

SegFullCounts(ls, alias_to_inner) ==
    CountAll(Concat([i \in 1..Len(ls) |-> CountedSegs(ls[i], alias_to_inner)]), EmptyDict)

\* sorted(picked, key=lambda s: (-counts[s], s))
SortTargets(picked, counts) ==
    Values(SortByKey([i \in 1..Len(picked) |->
        [k |-> <<0 - Get(counts, picked[i])>> \o Codes(picked[i]), v |-> picked[i]]]))

\* Targets picked without looking at the forms existing shortcuts cover.
AutoTargetsUncovered(counts, existing) ==
    SortTargets(SelectSeq(counts.keys, LAMBDA full : Get(counts, full) >= 2), counts)

\* sorted([full for full, cnt in counts.items() if cnt >= 2 and full not in
\* existing], key=lambda s: (-counts[s], s))
AutoTargets(counts, existing) ==
    SortTargets(SelectSeq(counts.keys,
                          LAMBDA full : Get(counts, full) >= 2 /\ ~Has(existing, full)),
                counts)

\* A name taken as it comes, without the uniqueness loop.
FreshNameUnchecked(name, base, i, existing_names) == name

\* while name in existing_names: name = f"{base}_{i}"; i += 1
RECURSIVE FreshName(_, _, _, _)
FreshName(name, base, i, existing_names) ==
    IF name \in existing_names
    THEN FreshName(base \o <<"_">> \o Str(i), base, i + 1, existing_names)
    ELSE name

\* base = sanitize_auto_name(full); name = base; i = 2; the while loop.
NameFromBase(base, existing_names) == FreshName(base, base, 2, existing_names)

\* for full in auto_targets: ... existing_names.add(name); auto_map[full] = name
RECURSIVE AssignNames(_, _, _)
RECURSIVE AssignName(_, _, _, _)
AssignName(targets, existing_names, auto, name) ==
    AssignNames(Tail(targets), existing_names \cup {name}, Put(auto, Head(targets), name))

AssignNames(targets, existing_names, auto) ==
    IF targets = <<>> THEN auto
    ELSE AssignName(targets, existing_names, auto,
                    NameFromBase(sanitize_auto_name(Head(targets)), existing_names))

KeySet(d) == {d.keys[i] : i \in 1..Len(d.keys)}
ValSet(d) == {d.val[i] : i \in 1..Len(d.val)}

\* A plain segment of phase 2, given its expansion seg_full.
Phase2Seg(p, seg_full, auto) ==
    IF lstrip(p) = seg_full /\ Has(auto, seg_full)
    THEN Slice(p, 0, Len(p) - Len(lstrip(p))) \o Get(auto, seg_full)
    ELSE p

\* One part of a body in phase 2.
Phase2Part(p, alias_to_inner, auto) ==
    IF IsOpPart(p) THEN p
    ELSE IF lstrip(p) = <<>> THEN p
    ELSE IF ~is_plain_segment(lstrip(p)) THEN p
    ELSE Phase2Seg(p, expand_prefix_aliases(lstrip(p), alias_to_inner), auto)

\* new_parts for the parts of a body.
Phase2Parts(parts, alias_to_inner, auto) ==
    [i \in 1..Len(parts) |-> Phase2Part(parts[i], alias_to_inner, auto)]

\* new_parts of a parsed line; nothing for a line that is no alias line.
Phase2Out(al, alias_to_inner, auto) ==
    IF ~al.ok THEN <<>>
    ELSE Phase2Parts(split_by_ops(unwrap_cmd(al.cmd_raw).inner), alias_to_inner, auto)

Phase2Inner(inner, alias_to_inner, auto) ==
    Concat(Phase2Parts(split_by_ops(inner), alias_to_inner, auto))

Phase2Rebuilt(line, al, alias_to_inner, auto) ==
    IF ~al.ok THEN line
    ELSE Rebuild(al, Phase2Inner(unwrap_cmd(al.cmd_raw).inner, alias_to_inner, auto))

Phase2Line(line, alias_to_inner, auto) ==
    Phase2Rebuilt(line, parse_alias_line(line), alias_to_inner, auto)

Phase2LineChanged(al, alias_to_inner, auto) ==
    /\ al.ok
    /\ Phase2Inner(unwrap_cmd(al.cmd_raw).inner, alias_to_inner, auto)
          # unwrap_cmd(al.cmd_raw).inner

Phase2Changed(ls, alias_to_inner, auto) ==
    \E i \in 1..Len(ls) :
        Phase2LineChanged(parse_alias_line(ls[i]), alias_to_inner, auto)

\* full.replace("'", "'\"'\"'")
RECURSIVE EscapeQuotes(_)
EscapeQuotes(full) ==
    IF full = <<>> THEN <<>>
    ELSE (IF Head(full) = "'" THEN Chars("'\"'\"'") ELSE <<Head(full)>>)
           \o EscapeQuotes(Tail(full))

Marker == Chars("# --- auto-generated aliases (refactor.py) ---")

\* f"alias {name}='{escaped}' # auto-generated"
AutoLine(name, full) ==
    Chars("alias ") \o name \o Chars("='") \o EscapeQuotes(full)
      \o Chars("' # auto-generated")

\* The block appended when auto_map is not empty: a blank line, the marker,
\* and one definition per entry, sorted by name.
AutoLines(auto, byName) ==
    [j \in 1..Len(byName) |-> AutoLine(auto.val[byName[j]], auto.keys[byName[j]])]

AppendedBlock(auto) ==
    IF auto.keys = <<>> THEN <<>>
    ELSE <<<<>>, Marker>>
           \o AutoLines(auto, Values(SortByKey([i \in 1..Len(auto.keys) |->
                                         [k |-> Codes(auto.val[i]), v |-> i]])))

\* ------------------------------------------------------------------ state

VARIABLES
    file,                       \* the text of the aliases file
    run,                        \* how many times the tool has been started
    pc,                         \* where main() stands
    text_read,                  \* the text this run read
    lines,
    alias_to_cmd_inner, full_for_alias, dupes, canonical_for_full,
    phase1_out,                 \* per line, the list `out` of refactor_command
    phase1_lines, phase1_changed,
    phase2_alias_to_inner, full_to_canonical_existing,
    seg_full_counts, auto_map,
    phase2_out,                 \* per line, the list `new_parts`
    final_lines, phase2_changed,
    \* one call of expand_prefix_aliases, iteration by iteration
    ex_pc, ex_cmd, ex_map, cur, hops

mainVars ==
    <<file, run, pc, text_read, lines,
      alias_to_cmd_inner, full_for_alias, dupes, canonical_for_full,
      phase1_out, phase1_lines, phase1_changed,
      phase2_alias_to_inner, full_to_canonical_existing, seg_full_counts, auto_map,
      phase2_out, final_lines, phase2_changed>>
exVars == <<ex_pc, ex_cmd, ex_map, cur, hops>>
vars == <<mainVars, exVars>>

\* ----------------------------------------------------------------- bounds

\* The longest input file, in lines, and the number of consecutive runs.
MaxLines == 3
MaxRuns == 2

\* All sequences of at most n elements of pool.
SeqsUpTo(pool, n) == UNION {[1..k -> pool] : k \in 0..n}

\* Shortcut files with duplicate, chained, self- and mutually-referencing
\* definitions and with bodies of several segments.
PoolDup ==
    {Chars("alias gs='git status'"),
     Chars("alias s='git status'"),
     Chars("alias t=\"git status\""),
     Chars("alias u='git status -s | wc'"),
     Chars("alias v='git status -s'"),
     Chars("alias x=x"),
     Chars("alias x='tt'"),
     Chars("alias tt='git status'"),
     Chars("alias m='aa && bb'"),
     Chars("alias z='aa && bb ; gs'"),
     Chars("alias a='b'"),
     Chars("alias b='a'")}

\* Shortcut files with repeated plain segments, forms that sanitize to one
\* base name, and user shortcuts that already carry an auto_ name.
PoolAuto ==
    {Chars("alias a='ls x ; ls.x'"),
     Chars("alias b='ls.x | ls x'"),
     Chars("alias c='ls x -l ; ls x'"),
     Chars("alias d='ls x'"),
     Chars("alias e='pwd ; pwd'"),
     Chars("alias f='(ls x) ; if x ; (ls x) ; if x'"),
     Chars("alias auto_ls_x='pwd'"),
     Chars("alias auto_ls_x_2=\"echo 'hi' && echo 'hi'\"")}

\* Lines in every layout the parser distinguishes: quoted and unquoted bodies,
\* comments, indentation, whitespace around the parts, and lines that are not
\* shortcut definitions.
PoolFmt ==
    {Chars("alias gs ='git status'"),
     Chars("  alias  s=\"git status\"   # comment"),
     Chars("alias q=ls -l \t# c"),
     Chars("alias k='a#b' #c"),
     Chars("alias p= 'x y' "),
     Chars("alias bad name=foo"),
     Chars("alias =x"),
     Chars("# note"),
     <<>>,
     Chars("export X=1 # alias s=x")}

InitMain(pool) ==
    /\ file \in {<<>>} \cup {FileText(ls) : ls \in SeqsUpTo(pool, MaxLines)}
    /\ run = 1
    /\ pc = "start"
    /\ text_read = <<>>
    /\ lines = <<>>
    /\ alias_to_cmd_inner = EmptyDict
    /\ full_for_alias = EmptyDict
    /\ dupes = EmptyDict
    /\ canonical_for_full = EmptyDict
    /\ phase1_out = <<>>
    /\ phase1_lines = <<>>
    /\ phase1_changed = FALSE
    /\ phase2_alias_to_inner = EmptyDict
    /\ full_to_canonical_existing = EmptyDict
    /\ seg_full_counts = EmptyDict
    /\ auto_map = EmptyDict
    /\ phase2_out = <<>>
    /\ final_lines = <<>>
    /\ phase2_changed = FALSE
    /\ ex_pc = "off"
    /\ ex_cmd = <<>>
    /\ ex_map = EmptyDict
    /\ cur = <<>>
    /\ hops = 0

Init == InitMain(PoolDup)
InitAuto == InitMain(PoolAuto)
InitFmt == InitMain(PoolFmt)

\* ---------------------------------------------------------------- actions

\* main, lines 261-286: read the file, parse it, build the alias map, the
\* full forms, the duplicate groups and their canonical names.
Resolve ==
    /\ pc = "start"
    /\ text_read' = file
    /\ lines' = splitlines(file)
    /\ alias_to_cmd_inner' = AliasToInner(lines', EmptyDict)
    /\ full_for_alias' = FullForAlias(alias_to_cmd_inner')
    /\ dupes' = Dupes(full_for_alias', 1, EmptyDict)
    /\ canonical_for_full' = CanonicalForFull(dupes')
    /\ pc' = "resolved"
    /\ UNCHANGED <<file, run, phase1_out, phase1_lines, phase1_changed,
                   phase2_alias_to_inner, full_to_canonical_existing,
                   seg_full_counts, auto_map, phase2_out, final_lines,
                   phase2_changed, exVars>>

\* main, lines 288-313: phase 1, every alias line rebuilt around its
\* refactored body.
Phase1 ==
    /\ pc = "resolved"
    /\ phase1_out' =
          [i \in 1..Len(lines) |->
              Phase1Parts(parse_alias_line(lines[i]), alias_to_cmd_inner,
                          canonical_for_full, full_for_alias)]
    /\ phase1_lines' =
          [i \in 1..Len(lines) |->
              Phase1Line(lines[i], alias_to_cmd_inner, canonical_for_full, full_for_alias)]
    /\ phase1_changed' =
          Phase1Changed(lines, alias_to_cmd_inner, canonical_for_full, full_for_alias)
    /\ pc' = "phase1"
    /\ UNCHANGED <<file, run, text_read, lines, alias_to_cmd_inner, full_for_alias,
                   dupes, canonical_for_full, phase2_alias_to_inner,
                   full_to_canonical_existing, seg_full_counts, auto_map,
                   phase2_out, final_lines, phase2_changed, exVars>>

\* main, lines 315-375: re-parse the phase 1 lines, count the unaliased plain
\* segments, pick the targets and give each a fresh name.
Detect ==
    /\ pc = "phase1"
    /\ phase2_alias_to_inner' = AliasToInner(phase1_lines, EmptyDict)
    /\ full_to_canonical_existing' =
          CanonicalForFull(Dupes(FullForAlias(phase2_alias_to_inner'), 1, EmptyDict))
    /\ seg_full_counts' = SegFullCounts(phase1_lines, phase2_alias_to_inner')
    /\ auto_map' = AssignNames(AutoTargets(seg_full_counts', full_to_canonical_existing'),
                               KeySet(phase2_alias_to_inner'), EmptyDict)
    /\ pc' = "detected"
    /\ UNCHANGED <<file, run, text_read, lines, alias_to_cmd_inner, full_for_alias,
                   dupes, canonical_for_full, phase1_out, phase1_lines,
                   phase1_changed, phase2_out, final_lines, phase2_changed, exVars>>

\* main, lines 377-434: phase 2, the counted segments replaced by their auto
\* names, and the block of generated definitions appended.
Phase2 ==
    /\ pc = "detected"
    /\ phase2_out' =
          [i \in 1..Len(phase1_lines) |->
              Phase2Out(parse_alias_line(phase1_lines[i]), phase2_alias_to_inner,
                        auto_map)]
    /\ final_lines' =
          [i \in 1..Len(phase1_lines) |->
              Phase2Line(phase1_lines[i], phase2_alias_to_inner, auto_map)]
            \o AppendedBlock(auto_map)
    /\ phase2_changed' = Phase2Changed(phase1_lines, phase2_alias_to_inner, auto_map)
    /\ pc' = "phase2"
    /\ UNCHANGED <<file, run, text_read, lines, alias_to_cmd_inner, full_for_alias,
                   dupes, canonical_for_full, phase1_out, phase1_lines,
                   phase1_changed, phase2_alias_to_inner,
                   full_to_canonical_existing, seg_full_counts, auto_map, exVars>>

\* main, line 436: the file written back in one piece.
WriteBack ==
    /\ pc = "phase2"
    /\ file' = FileText(final_lines)
    /\ pc' = "done"
    /\ UNCHANGED <<run, text_read, lines, alias_to_cmd_inner, full_for_alias, dupes,
                   canonical_for_full, phase1_out, phase1_lines, phase1_changed,
                   phase2_alias_to_inner, full_to_canonical_existing,
                   seg_full_counts, auto_map, phase2_out, final_lines,
                   phase2_changed, exVars>>

\* The tool started again on the file it has written.
RunAgain ==
    /\ pc = "done"
    /\ run < MaxRuns
    /\ run' = run + 1
    /\ pc' = "start"
    /\ UNCHANGED <<file, text_read, lines, alias_to_cmd_inner, full_for_alias, dupes,
                   canonical_for_full, phase1_out, phase1_lines, phase1_changed,
                   phase2_alias_to_inner, full_to_canonical_existing,
                   seg_full_counts, auto_map, phase2_out, final_lines,
                   phase2_changed, exVars>>

Next == Resolve \/ Phase1 \/ Detect \/ Phase2 \/ WriteBack \/ RunAgain

\* ------------------------------------- expand_prefix_aliases, step by step

\* A dict from a sequence of <<name, body>> pairs, entered in order.
RECURSIVE DictOf(_)
DictOf(pairs) ==
    IF pairs = <<>> THEN EmptyDict
    ELSE Put(DictOf(SubSeq(pairs, 1, Len(pairs) - 1)),
             pairs[Len(pairs)][1], pairs[Len(pairs)][2])

\* Alias maps without a cycle, with a shortcut that names itself, with two
\* that name each other, with an empty body, and with a chain longer than the
\* depth bound.
ExMaps ==
    {EmptyDict,
     DictOf(<<<<Chars("gs"), Chars("git status")>>, <<Chars("s"), Chars("gs -s")>>>>),
     DictOf(<<<<Chars("x"), Chars("x")>>>>),
     DictOf(<<<<Chars("x"), Chars("x y")>>, <<Chars("s"), Chars("x  z ")>>>>),
     DictOf(<<<<Chars("a"), Chars("b")>>, <<Chars("b"), Chars("a q")>>>>),
     DictOf(<<<<Chars("e"), <<>>>>, <<Chars("s"), Chars("e")>>>>),
     DictOf(<<<<Chars("c0"), Chars("c1")>>, <<Chars("c1"), Chars("c2")>>,
              <<Chars("c2"), Chars("c3")>>, <<Chars("c3"), Chars("c4")>>,
              <<Chars("c4"), Chars("c5")>>, <<Chars("c5"), Chars("c6")>>,
              <<Chars("c6"), Chars("c7")>>, <<Chars("c7"), Chars("c8")>>,
              <<Chars("c8"), Chars("c9")>>, <<Chars("c9"), Chars("ca")>>,
              <<Chars("ca"), Chars("cb")>>, <<Chars("cb"), Chars("ls -l")>>>>)}

ExCmds ==
    {<<>>, Chars("  "), Chars("git log"), Chars("s"), Chars(" s  -v"), Chars("gs"),
     Chars("x"), Chars("x w"), Chars("a"), Chars("b z"), Chars("e s"), Chars("e"),
     Chars("c0"), Chars("c1 -a"), Chars("c2"), Chars("cb")}

InitExpand ==
    /\ file = <<>>
    /\ run = 0
    /\ pc = "off"
    /\ text_read = <<>>
    /\ lines = <<>>
    /\ alias_to_cmd_inner = EmptyDict
    /\ full_for_alias = EmptyDict
    /\ dupes = EmptyDict
    /\ canonical_for_full = EmptyDict
    /\ phase1_out = <<>>
    /\ phase1_lines = <<>>
    /\ phase1_changed = FALSE
    /\ phase2_alias_to_inner = EmptyDict
    /\ full_to_canonical_existing = EmptyDict
    /\ seg_full_counts = EmptyDict
    /\ auto_map = EmptyDict
    /\ phase2_out = <<>>
    /\ final_lines = <<>>
    /\ phase2_changed = FALSE
    /\ ex_pc = "loop"
    /\ ex_cmd \in ExCmds
    /\ ex_map \in ExMaps
    /\ cur = ex_cmd
    /\ hops = 0

\* for _ in range(depth): the token is a known name, substitute.
ExHop ==
    /\ ex_pc = "loop"
    /\ hops < Depth
    /\ CanHop(cur, ex_map)
    /\ cur' = Hop(cur, ex_map)
    /\ hops' = hops + 1
    /\ UNCHANGED <<ex_pc, ex_cmd, ex_map, mainVars>>

\* else: break
ExBreak ==
    /\ ex_pc = "loop"
    /\ hops < Depth
    /\ ~CanHop(cur, ex_map)
    /\ ex_pc' = "ret"
    /\ UNCHANGED <<ex_cmd, ex_map, cur, hops, mainVars>>

\* range(depth) is used up: return cur
ExExhaust ==
    /\ ex_pc = "loop"
    /\ hops >= Depth
    /\ ex_pc' = "ret"
    /\ UNCHANGED <<ex_cmd, ex_map, cur, hops, mainVars>>

NextExpand == ExHop \/ ExBreak \/ ExExhaust

Spec == Init /\ [][Next]_vars
SpecAuto == InitAuto /\ [][Next]_vars
SpecFmt == InitFmt /\ [][Next]_vars
\* The loop is sequential code: an iteration that can run does run.
SpecExpand == InitExpand /\ [][NextExpand]_vars /\ WF_vars(NextExpand)

\* ================================================================= claims

\* C1.  In every group of shortcut names with one full form, the canonical
\* name is a member of the group, no member is shorter, and no member of the
\* same length is lexicographically smaller; the file holds the shortcuts in
\* every order.
C1_CanonicalChoice ==
    pc # "start" =>
        \A k \in 1..Len(dupes.keys) :
            LET group == dupes.val[k]
                c == Get(canonical_for_full, dupes.keys[k])
            IN /\ \E i \in 1..Len(group) : group[i] = c
               /\ \A i \in 1..Len(group) :
                     \/ Len(c) < Len(group[i])
                     \/ /\ Len(c) = Len(group[i])
                        /\ (c = group[i] \/ SeqLess(Codes(c), Codes(group[i])))

\* A group whose first member in file order is not the canonical name, with
\* another member as short as the canonical one and a longer one.
C1_Witness ==
    /\ pc = "resolved"
    /\ \E k \in 1..Len(dupes.keys) :
          LET group == dupes.val[k]
              c == Get(canonical_for_full, dupes.keys[k])
          IN /\ Len(group) = 3
             /\ group[1] # c
             /\ \E i \in 1..3 : group[i] # c /\ Len(group[i]) = Len(c)
             /\ \E i \in 1..3 : Len(group[i]) > Len(c)

\* C9.  Leading-token expansion makes at most 10 substitutions and then
\* returns; with fewer than 10 made it goes on exactly when the first token of
\* the current command is a known shortcut name, and returns exactly when it
\* is not.  What it returns is what expand_prefix_aliases computes.
C9_BoundedExpansion ==
    /\ [](hops <= 10)
    /\ [](ex_pc = "ret" /\ hops < 10 => first_token(cur) \notin KeySet(ex_map))
    /\ [](ex_pc = "ret" => cur = expand_prefix_aliases(ex_cmd, ex_map))
    /\ [][ex_pc = "loop" /\ hops < 10 =>
            IF first_token(cur) \in KeySet(ex_map)
            THEN ex_pc' = "loop" /\ hops' = hops + 1
            ELSE ex_pc' = "ret" /\ hops' = hops /\ cur' = cur]_vars
    /\ <>(ex_pc = "ret")

\* A cyclic alias map stopped by the bound: ten substitutions made, and the
\* first token still a known name.
C9_Witness ==
    /\ ex_pc = "ret"
    /\ hops = 10
    /\ first_token(cur) \in KeySet(ex_map)
    /\ Has(ex_map, Chars("a"))
    /\ Has(ex_map, Chars("b"))

\* ------------------------------------------------- what the claims speak of

\* The alias lines of a list of lines, as indices.
AliasIdx(ls) == {i \in 1..Len(ls) : parse_alias_line(ls[i]).ok}
NameOf(line) == parse_alias_line(line).name
InnerOf(line) == unwrap_cmd(parse_alias_line(line).cmd_raw).inner
PartsOf(line) == split_by_ops(InnerOf(line))
LeadOf(p) == Slice(p, 0, Len(p) - Len(lstrip(p)))
AfterPhase1 == pc \in {"phase1", "detected", "phase2", "done"}
AfterDetect == pc \in {"detected", "phase2", "done"}
AfterPhase2 == pc \in {"phase2", "done"}

\* C3.  Every auto-generated name differs from every shortcut name defined in
\* the file after phase 1 and from every other auto-generated name of the
\* run.  A name is its sanitized base, or the base with _k appended, k >= 2,
\* and then the base and every base_j with 2 <= j < k is taken by a shortcut
\* of the file or by another auto-generated name.
C3_NameUniqueness ==
    AfterDetect =>
        LET existing == KeySet(phase2_alias_to_inner)
            n == Len(auto_map.keys)
            taken == existing \cup ValSet(auto_map)
        IN /\ \A i \in 1..n : auto_map.val[i] \notin existing
           /\ \A i, j \in 1..n : i # j => auto_map.val[i] # auto_map.val[j]
           /\ \A i \in 1..n :
                LET base == sanitize_auto_name(auto_map.keys[i])
                    name == auto_map.val[i]
                IN \/ name = base
                   \/ \E k \in 2..(Cardinality(taken) + 1) :
                        /\ name = base \o <<"_">> \o Str(k)
                        /\ base \in taken \ {name}
                        /\ \A j \in 2..(k - 1) : (base \o <<"_">> \o Str(j)) \in taken \ {name}

\* Two forms with one sanitized base, while user shortcuts already carry the
\* base name: the auto names come out as base_2 and base_3.
C3_Witness ==
    /\ pc = "detected"
    /\ Has(phase2_alias_to_inner, Chars("auto_ls_x"))
    /\ Has(auto_map, Chars("ls x"))
    /\ Has(auto_map, Chars("ls.x"))
    /\ Get(auto_map, Chars("ls x")) = Chars("auto_ls_x_2")
    /\ Get(auto_map, Chars("ls.x")) = Chars("auto_ls_x_3")

\* The occurrences of a form as an unaliased plain segment in the phase 1
\* lines: pairs of line and part.
Occurrences(form) ==
    {ij \in UNION {{<<i, j>> : j \in 1..Len(PartsOf(phase1_lines[i]))} :
                      i \in AliasIdx(phase1_lines)} :
        LET p == PartsOf(phase1_lines[ij[1]])[ij[2]] IN
        /\ ~IsOpPart(p)
        /\ is_plain_segment(lstrip(p))
        /\ lstrip(p) = ExpandRun(lstrip(p), phase2_alias_to_inner, Depth).cur
        /\ lstrip(p) = form}

\* Every plain segment text of the phase 1 lines.
SegmentForms ==
    UNION {{lstrip(PartsOf(phase1_lines[i])[j]) : j \in 1..Len(PartsOf(phase1_lines[i]))} :
              i \in AliasIdx(phase1_lines)}

\* The full forms of the shortcuts defined after phase 1.
CoveredForms ==
    {ExpandRun(phase2_alias_to_inner.val[k], phase2_alias_to_inner, Depth).cur :
        k \in 1..Len(phase2_alias_to_inner.keys)}

\* C6.  The promoted forms are exactly the forms that occur at least twice as
\* an unaliased plain segment after phase 1 and are the full form of no
\* shortcut; each has one name, which starts with auto_; every occurrence is
\* replaced by the name (behind the segment's leading whitespace) and no other
\* part changes; the lines written are the rewritten lines followed, if a form
\* was promoted, by a blank line, the marker and exactly one definition line
\* per promoted form, and by nothing otherwise.
C6_AutoPromotion ==
    AfterPhase2 =>
        LET promoted == {f \in SegmentForms :
                            Cardinality(Occurrences(f)) >= 2 /\ f \notin CoveredForms}
            n == Len(phase1_lines)
            block == SubSeq(final_lines, n + 1, Len(final_lines))
        IN /\ KeySet(auto_map) = promoted
           /\ \A f \in promoted : StartsWith(Get(auto_map, f), Chars("auto_"))
           /\ \A i \in AliasIdx(phase1_lines) :
                LET parts == PartsOf(phase1_lines[i]) IN
                /\ Len(phase2_out[i]) = Len(parts)
                /\ \A j \in 1..Len(parts) :
                     IF \E f \in promoted : <<i, j>> \in Occurrences(f)
                     THEN phase2_out[i][j] = LeadOf(parts[j]) \o Get(auto_map, lstrip(parts[j]))
                     ELSE phase2_out[i][j] = parts[j]
                /\ InnerOf(final_lines[i]) = Concat(phase2_out[i])
                /\ NameOf(final_lines[i]) = NameOf(phase1_lines[i])
           /\ \A i \in (1..n) \ AliasIdx(phase1_lines) : final_lines[i] = phase1_lines[i]
           /\ Len(final_lines) >= n
           /\ IF promoted = {} THEN block = <<>>
              ELSE /\ Len(block) = 2 + Cardinality(promoted)
                   /\ block[1] = <<>>
                   /\ block[2] = Marker
                   /\ \A f \in promoted :
                        /\ Cardinality({b \in 3..Len(block) :
                               block[b] = Chars("alias ") \o Get(auto_map, f) \o Chars("='")
                                            \o EscapeQuotes(f) \o Chars("' # auto-generated")}) = 1
                        /\ Cardinality({b \in 3..Len(block) :
                               /\ parse_alias_line(block[b]).ok
                               /\ NameOf(block[b]) = Get(auto_map, f)}) = 1
                        /\ ("'" \notin {f[c] : c \in 1..Len(f)} =>
                              \E b \in 3..Len(block) :
                                  /\ NameOf(block[b]) = Get(auto_map, f)
                                  /\ InnerOf(block[b]) = f)

\* One form promoted and replaced in two lines, while a form that a shortcut
\* covers stays as it is.
C6_Witness ==
    /\ pc = "done"
    /\ run = 1
    /\ KeySet(auto_map) = {Chars("ls.x")}
    /\ Cardinality({ij[1] : ij \in Occurrences(Chars("ls.x"))}) = 2
    /\ Cardinality(Occurrences(Chars("ls x"))) = 1
    /\ Chars("ls x") \in CoveredForms
    /\ \E i \in 1..Len(final_lines) :
          final_lines[i] = Chars("alias auto_ls_x='ls.x' # auto-generated")

\* C4.  A second run in which no group of duplicates and no repeated
\* unaliased segment is found leaves the file as the first run wrote it.
C4_Idempotence ==
    (run = 2 /\ pc = "done"
       /\ (\A k \in 1..Len(dupes.keys) : Len(dupes.val[k]) = 1)
       /\ (\A k \in 1..Len(seg_full_counts.keys) : seg_full_counts.val[k] < 2)
       /\ auto_map.keys = <<>>)
    => file = text_read

\* C2.  When the tool has written the file, no shortcut X defined in it has a
\* body that is X itself or that one step of leading-token expansion, under
\* the shortcuts of the written file, turns into exactly X.
C2_NoSelfReference ==
    pc = "done" =>
        LET written == AliasToInner(final_lines, EmptyDict) IN
        \A i \in AliasIdx(final_lines) :
            /\ InnerOf(final_lines[i]) # NameOf(final_lines[i])
            /\ ExpandRun(InnerOf(final_lines[i]), written, 1).cur # NameOf(final_lines[i])

\* The known full forms that a segment's expansion equals or starts with,
\* followed by a space.
MatchingForms(full) ==
    {f \in KeySet(canonical_for_full) : full = f \/ StartsWith(full, f \o <<" ">>)}
LongestForm(forms) == CHOOSE f \in forms : \A g \in forms : Len(g) <= Len(f)
GroupOf(f) == {Get(dupes, f)[k] : k \in 1..Len(Get(dupes, f))}
\* The member of a group with the least length and, among those, the least
\* in the order of the character codes.
Shortest(names) ==
    CHOOSE c \in names : \A o \in names \ {c} :
        Len(c) < Len(o) \/ (Len(c) = Len(o) /\ SeqLess(Codes(c), Codes(o)))

\* C5 as written.  When two or more shortcuts have one full form, the
\* definitions of the group's members stay unchanged, and every segment of
\* another shortcut's body whose expansion has that form as a prefix is
\* rewritten to begin with the group's canonical name.
C5_AsWritten ==
    AfterPhase1 =>
        \A f \in KeySet(dupes) :
            Cardinality(GroupOf(f)) >= 2 =>
                \A i \in AliasIdx(lines) :
                    IF NameOf(lines[i]) \in GroupOf(f)
                    THEN phase1_lines[i] = lines[i]
                    ELSE \A j \in 1..Len(PartsOf(lines[i])) :
                            LET p == PartsOf(lines[i])[j] IN
                            (~IsOpPart(p) /\ lstrip(p) # <<>>
                               /\ f \in MatchingForms(expand_prefix_aliases(lstrip(p),
                                                                           alias_to_cmd_inner)))
                            => \/ lstrip(phase1_out[i][j]) = Get(canonical_for_full, f)
                               \/ StartsWith(lstrip(phase1_out[i][j]),
                                             Get(canonical_for_full, f) \o <<" ">>)

\* C5.  When two or more shortcuts have one full form, every body segment
\* whose expansion has that form as its longest known prefix becomes the
\* group's canonical name (the shortest member, then the least in character
\* order), followed by the words behind the prefix.  This includes the
\* definitions of the group's other members.  Only a segment in the canonical
\* member's own definition, matched by that member's own full form, stays as
\* it is; so does every segment whose expansion starts with no known form.
C5_EquivalenceUnification ==
    AfterPhase1 =>
        \A i \in AliasIdx(lines) :
            \A j \in 1..Len(PartsOf(lines[i])) :
                LET p == PartsOf(lines[i])[j]
                    X == NameOf(lines[i])
                    full == expand_prefix_aliases(lstrip(p), alias_to_cmd_inner)
                    forms == MatchingForms(full)
                IN (~IsOpPart(p) /\ lstrip(p) # <<>>) =>
                     IF forms = {} THEN phase1_out[i][j] = p
                     ELSE LET f == LongestForm(forms)
                              c == Shortest(GroupOf(f))
                              rest == Tokens(From(full, Len(f)))
                          IN IF c = X /\ f = Get(full_for_alias, X)
                             THEN phase1_out[i][j] = p
                             ELSE /\ LeadOf(phase1_out[i][j]) = LeadOf(p)
                                  /\ Tokens(phase1_out[i][j]) = <<c>> \o rest
                                  /\ (Cardinality(GroupOf(f)) >= 2 /\ X \in GroupOf(f)
                                        /\ Len(PartsOf(lines[i])) = 1 /\ f = full)
                                     => InnerOf(phase1_lines[i]) = c

\* gs and s share a full form: the definition of gs becomes 's', that of s
\* stays, and a third shortcut's segment is rewritten to begin with s.
C5_Witness ==
    /\ pc = "phase1"
    /\ lines = <<Chars("alias gs='git status'"), Chars("alias s='git status'"),
                 Chars("alias u='git status -s | wc'")>>
    /\ phase1_lines = <<Chars("alias gs='s'"), Chars("alias s='git status'"),
                        Chars("alias u='s -s | wc'")>>

HopsOf(cmd) == ExpandRun(strip(cmd), alias_to_cmd_inner, Depth).hops

\* C10.  For every segment that phase 1 replaces, bounded expansion of the
\* new segment under the shortcuts read yields the same whitespace-separated
\* tokens as bounded expansion of the segment read, provided neither
\* expansion makes as many substitutions as the depth bound allows.
C10_Phase1PreservesMeaning ==
    AfterPhase1 =>
        \A i \in AliasIdx(lines) :
            \A j \in 1..Len(PartsOf(lines[i])) :
                LET old == PartsOf(lines[i])[j]
                    new == phase1_out[i][j]
                IN (/\ ~IsOpPart(old)
                    /\ new # old
                    /\ HopsOf(lstrip(old)) < Depth
                    /\ HopsOf(lstrip(new)) < Depth)
                   => Tokens(expand_prefix_aliases(lstrip(new), alias_to_cmd_inner))
                        = Tokens(expand_prefix_aliases(lstrip(old), alias_to_cmd_inner))

\* A segment with words behind the matched form is replaced, and the new
\* segment expands in one substitution to the tokens of the old one.
C10_Witness ==
    /\ pc = "phase1"
    /\ \E i \in AliasIdx(lines) :
          /\ PartsOf(lines[i])[1] = Chars("git status -s")
          /\ phase1_out[i][1] = Chars("s -s")
          /\ HopsOf(Chars("s -s")) = 1
          /\ Tokens(expand_prefix_aliases(Chars("s -s"), alias_to_cmd_inner))
                = <<Chars("git"), Chars("status"), Chars("-s")>>

\* C7.  Every line read is written as it was read, except where a segment
\* was replaced: a line that is no shortcut definition in both phases, and a
\* shortcut line none of whose segments a phase replaces, leave that phase
\* character for character as they entered it.
C7_ByteFaithful ==
    AfterPhase2 =>
        \A i \in 1..Len(lines) :
            /\ ~parse_alias_line(lines[i]).ok => phase1_lines[i] = lines[i]
            /\ (parse_alias_line(lines[i]).ok /\ phase1_out[i] = PartsOf(lines[i]))
                  => phase1_lines[i] = lines[i]
            /\ ~parse_alias_line(phase1_lines[i]).ok => final_lines[i] = phase1_lines[i]
            /\ (parse_alias_line(phase1_lines[i]).ok
                  /\ phase2_out[i] = PartsOf(phase1_lines[i]))
                  => final_lines[i] = phase1_lines[i]
====
